---- MODULE Spec2Model ----
(***************************************************************************)
(* Model of video_to_pdf_notes_script.py: a batch driver that samples      *)
(* frames of every video under video/ with ffmpeg, assembles one PDF per   *)
(* video under pdf/, deletes the frames and merges the per-video PDFs.     *)
(*                                                                         *)
(* File names are sequences of one-character strings, so that the          *)
(* conversions of the script (leading number -> zero padded identifier ->  *)
(* PDF name -> sort key) are computed, not assumed.                        *)
(***************************************************************************)
EXTENDS Integers, Sequences, FiniteSets, TLC

(***************************************************************************)
(* Bounds of the model                                                     *)
(***************************************************************************)
\* most files of video/ in one initial state
MaxVideos == 2
\* most frames ffmpeg writes for one video
MaxFrames == 1
\* most consecutive stage calls of the single-threaded stage harness
MaxCalls == 2

(***************************************************************************)
(* Program constants                                                       *)
(***************************************************************************)
\* extract_number: key of a name without a leading number
Sentinel == 999999999
\* process_video: str(...).zfill(3)
ZfillWidth == 3
\* main: ThreadPoolExecutor(max_workers=4)
MaxWorkers == 4

(***************************************************************************)
(* Strings                                                                 *)
(***************************************************************************)
DigitChars == <<"0", "1", "2", "3", "4", "5", "6", "7", "8", "9">>

Digit == {DigitChars[i] : i \in 1..10}

DigitVal(c) == (CHOOSE i \in 1..10 : DigitChars[i] = c) - 1

\* re.match(r"(\d+)", name): the length of the leading run of digits
LeadingDigits(name) ==
    CHOOSE k \in 0..Len(name) :
        /\ \A i \in 1..k : name[i] \in Digit
        /\ (k = Len(name) \/ name[k + 1] \notin Digit)

RECURSIVE ToInt(_)
\* int(s) of a string of decimal digits
ToInt(s) ==
    IF s = <<>> THEN 0
    ELSE ToInt(SubSeq(s, 1, Len(s) - 1)) * 10 + DigitVal(s[Len(s)])

RECURSIVE Str(_)
\* str(n) of a natural number
Str(n) ==
    IF n < 10 THEN <<DigitChars[n + 1]>>
    ELSE Str(n \div 10) \o <<DigitChars[(n % 10) + 1]>>

RECURSIVE zfill(_, _)
\* s.zfill(width) of a string without a sign
zfill(s, width) ==
    IF Len(s) >= width THEN s ELSE zfill(<<"0">> \o s, width)

\* extract_number(name)
extract_number(name) ==
    IF LeadingDigits(name) > 0
    THEN ToInt(SubSeq(name, 1, LeadingDigits(name)))
    ELSE Sentinel

\* the position of the last "." of a name (0 when there is none)
LastDot(name) ==
    IF \E i \in 1..Len(name) : name[i] = "."
    THEN CHOOSE i \in 1..Len(name) :
            name[i] = "." /\ \A j \in (i + 1)..Len(name) : name[j] # "."
    ELSE 0

\* pathlib's f.stem: the name without its last suffix
Stem(name) ==
    IF LastDot(name) > 1 THEN SubSeq(name, 1, LastDot(name) - 1) ELSE name

\* pathlib's f.suffix
Suffix(name) ==
    IF LastDot(name) > 1 THEN SubSeq(name, LastDot(name), Len(name)) ELSE <<>>

Mp4 == <<".", "m", "p", "4">>
Webm == <<".", "w", "e", "b", "m">>
Mkv == <<".", "m", "k", "v">>
Avi == <<".", "a", "v", "i">>
Pdf == <<".", "p", "d", "f">>

\* the extensions main() globs for
VideoSuffixes == {Mp4, Webm, Mkv}

\* "final_merged.pdf"
MergedName == <<"f", "i", "n", "a", "l", "_", "m", "e", "r", "g", "e", "d">> \o Pdf

\* the files video/ may hold: 2.mp4, 02x.mkv, 10.webm, a.mp4, 3.avi
FileUniverse ==
    { <<"2">> \o Mp4, <<"0", "2", "x">> \o Mkv, <<"1", "0">> \o Webm,
      <<"a">> \o Mp4, <<"3">> \o Avi }

\* process_video: number = str(extract_number(video_path.name)).zfill(3)
Number(video) == zfill(Str(extract_number(video)), ZfillWidth)

\* number, computed once for each file video/ may hold
Numbers == [video \in FileUniverse |-> Number(video)]

\* process_video: img_dir = OUTPUT_DIR / number
ImgDir(video) == IF video \in FileUniverse THEN Numbers[video] ELSE Number(video)

\* process_video: pdf_path = OUTPUT_DIR / f"{number}.pdf"
PdfPath(video) == ImgDir(video) \o Pdf

(***************************************************************************)
(* The filesystem.  frameDirs maps each existing directory under pdf/ to   *)
(* the set of files in it, pdfFiles is the set of per-video PDFs that      *)
(* exist, merged is pdf/final_merged.pdf: whether it exists and the PDFs   *)
(* appended to it, in order.                                               *)
(***************************************************************************)
VARIABLES ffmpegInstalled, videoDirExists, videoFiles, outDirExists,
          frameDirs, pdfFiles, merged

(***************************************************************************)
(* main(): its position, why it returned, whether this is a later run over *)
(* the same directories, the sorted list of discovered videos and one task *)
(* of the thread pool per video.                                           *)
(***************************************************************************)
VARIABLES mainPc, exit, rerun, videos, task

(***************************************************************************)
(* History: how often each per-video PDF and the merged PDF were written,  *)
(* over all runs.                                                          *)
(***************************************************************************)
VARIABLES pdfWrites, mergeWrites

(***************************************************************************)
(* The stage harness: the stage calls made so far, each with what it       *)
(* found, did and returned.                                                *)
(***************************************************************************)
VARIABLES calls

fsVars == <<ffmpegInstalled, videoDirExists, videoFiles, outDirExists,
            frameDirs, pdfFiles, merged>>
mainVars == <<mainPc, exit, rerun, videos, task>>
histVars == <<pdfWrites, mergeWrites>>
vars == <<fsVars, mainVars, histVars, calls>>

\* the names ffmpeg gives the frames: frame_%04d.jpg
FrameNames == <<"frame_0001.jpg", "frame_0002.jpg", "frame_0003.jpg">>

\* every file name a frame directory may hold, in sorted() order
FileOrder == <<"cover.jpg">> \o FrameNames \o <<"notes.txt">>

\* glob("frame_*.jpg")
IsFrame(f) == \E i \in 1..Len(FrameNames) : FrameNames[i] = f

\* glob("*.jpg")
IsJpg(f) == IsFrame(f) \/ f = "cover.jpg"

\* sorted(...) of a set of file names of one directory
SortedFiles(S) == SelectSeq(FileOrder, LAMBDA f : f \in S)

\* a function without one key
Without(fn, key) == [x \in (DOMAIN fn) \ {key} |-> fn[x]]

\* output_subfolder.mkdir(parents=True, exist_ok=True)
Mkdir(dirs, d) == IF d \in DOMAIN dirs THEN dirs ELSE dirs @@ (d :> {})

\* a mutant of HasFrames: the check for existing frames is gone
HasFramesNever(dirs, d) == FALSE

\* any(output_subfolder.glob("frame_*.jpg"))
HasFrames(dirs, d) == d \in DOMAIN dirs /\ \E f \in dirs[d] : IsFrame(f)

\* subprocess.run(ffmpeg ...) returning after writing k frames; it writes
\* nothing into a directory that is gone
Ffmpeg(dirs, d, k) ==
    IF d \in DOMAIN dirs
    THEN [dirs EXCEPT ![d] = @ \cup {FrameNames[i] : i \in 1..k}]
    ELSE dirs

\* image_folder.glob("*.jpg")
GlobJpg(dirs, d) == IF d \in DOMAIN dirs THEN {f \in dirs[d] : IsJpg(f)} ELSE {}

\* pdf_path.exists()
PdfExists(pdfs, p) == p \in pdfs

\* a mutant of SavePdf: the PDF is not written to pdf_path
SavePdfNowhere(pdfs, p) == pdfs

\* first.save(pdf_path, save_all=True, append_images=others)
SavePdf(pdfs, p) == pdfs \cup {p}

\* a mutant of delete_frames: the emptied directory is not removed
delete_frames_no_rmdir(dirs, d) ==
    IF d \notin DOMAIN dirs THEN dirs
    ELSE [dirs EXCEPT ![d] = {f \in @ : ~IsJpg(f)}]

\* delete_frames(folder): unlink every *.jpg, then rmdir, whose failure
\* (directory missing or not empty) is swallowed
delete_frames(dirs, d) ==
    IF d \notin DOMAIN dirs THEN dirs
    ELSE IF \A f \in dirs[d] : IsJpg(f) THEN Without(dirs, d)
    ELSE [dirs EXCEPT ![d] = {f \in @ : ~IsJpg(f)}]

\* extract_frames(video_path, output_subfolder) as one call: started tells
\* whether ffmpeg can be started, k is the number of frames it then writes;
\* tool tells whether subprocess.run was called
extract_frames(dirs, d, started, k) ==
    IF HasFrames(Mkdir(dirs, d), d)
    THEN [dirs |-> Mkdir(dirs, d), ret |-> "True", tool |-> FALSE]
    ELSE IF started
    THEN [dirs |-> Ffmpeg(Mkdir(dirs, d), d, k), ret |-> "True", tool |-> TRUE]
    ELSE [dirs |-> Mkdir(dirs, d), ret |-> "raise", tool |-> TRUE]

\* a mutant of images_to_pdf: no check for an empty frame set, an empty PDF
\* is written
images_to_pdf_unchecked(dirs, pdfs, d, p, readable) ==
    IF PdfExists(pdfs, p) THEN [pdfs |-> pdfs, ret |-> "True", wrote |-> FALSE]
    ELSE IF readable THEN [pdfs |-> SavePdf(pdfs, p), ret |-> "True", wrote |-> TRUE]
    ELSE [pdfs |-> pdfs, ret |-> "raise", wrote |-> FALSE]

\* images_to_pdf(image_folder, pdf_path) as one call: readable tells whether
\* Image.open and save succeed; wrote tells whether the PDF was written
images_to_pdf(dirs, pdfs, d, p, readable) ==
    IF PdfExists(pdfs, p) THEN [pdfs |-> pdfs, ret |-> "True", wrote |-> FALSE]
    ELSE IF GlobJpg(dirs, d) = {} THEN [pdfs |-> pdfs, ret |-> "False", wrote |-> FALSE]
    ELSE IF readable THEN [pdfs |-> SavePdf(pdfs, p), ret |-> "True", wrote |-> TRUE]
    ELSE [pdfs |-> pdfs, ret |-> "raise", wrote |-> FALSE]

\* the *.pdf files of pdf/
GlobPdf(pdfs, m) == pdfs \cup (IF m.exists THEN {MergedName} ELSE {})

\* every ordering of the set S
Orderings(S) ==
    {s \in [1..Cardinality(S) -> S] : \A i, j \in DOMAIN s : i # j => s[i] # s[j]}

\* sorted(videos, key=lambda f: extract_number(f.name)): the three globs
\* enumerate in any order and the sort is stable, so equal keys come in any order
SortedVideos(files) ==
    {s \in Orderings(files) :
        \A i, j \in DOMAIN s : i < j => extract_number(s[i]) <= extract_number(s[j])}

\* a mutant of SortedPdfs: no sort, the enumeration order of glob is kept
UnsortedPdfs(files) == Orderings(files)

\* sorted(OUTPUT_DIR.glob("*.pdf"), key=lambda f: extract_number(f.stem))
SortedPdfs(files) ==
    {s \in Orderings(files) :
        \A i, j \in DOMAIN s :
            i < j => extract_number(Stem(s[i])) <= extract_number(Stem(s[j]))}

(***************************************************************************)
(* Initial states                                                          *)
(***************************************************************************)
\* VIDEO_DIR.glob("*.mp4") + glob("*.webm") + glob("*.mkv")
GlobVideos(files) == {f \in files : Suffix(f) \in VideoSuffixes}

\* a task of the pool that no worker has taken yet
Queued == [pc |-> "queued", images |-> <<>>, asmRet |-> "none",
           ret |-> "none", raised |-> "none"]

\* the state of the filesystem that the claims compare
Fs == [out |-> outDirExists, dirs |-> frameDirs, pdfs |-> pdfFiles, merged |-> merged]

NoMerged == [exists |-> FALSE, blocks |-> <<>>]

InitMain ==
    /\ mainPc = "main"
    /\ exit = "none"
    /\ rerun = FALSE
    /\ videos = <<>>
    /\ task = <<>>

InitHist ==
    /\ pdfWrites = [p \in {PdfPath(v) : v \in GlobVideos(FileUniverse)} |-> 0]
    /\ mergeWrites = 0

\* before the first run: video/ holds at most MaxVideos files, pdf/ is
\* missing, empty, or holds the frame directories with a leftover file each
Init ==
    /\ ffmpegInstalled \in BOOLEAN
    /\ videoDirExists \in BOOLEAN
    /\ videoFiles \in {S \in SUBSET FileUniverse : Cardinality(S) <= MaxVideos}
    /\ ~videoDirExists => videoFiles = {}
    /\ outDirExists \in BOOLEAN
    /\ \E stale \in BOOLEAN :
        /\ stale => outDirExists
        /\ frameDirs = [d \in {ImgDir(v) : v \in GlobVideos(videoFiles) \cap
                                                 (IF stale THEN FileUniverse ELSE {})}
                            |-> {"notes.txt"}]
    /\ pdfFiles = {}
    /\ merged = NoMerged
    /\ InitMain
    /\ InitHist
    /\ calls = <<>>

(***************************************************************************)
(* main()                                                                  *)
(***************************************************************************)
\* a mutant of ffmpeg_exists: the check for ffmpeg is gone
ffmpeg_exists_unchecked == TRUE

\* ffmpeg_exists(): shutil.which("ffmpeg") is not None
ffmpeg_exists == ffmpegInstalled

Return(reason) ==
    /\ mainPc' = "returned"
    /\ exit' = reason

\* if not ffmpeg_exists(): return
MainNoFfmpeg ==
    /\ mainPc = "main"
    /\ ~ffmpeg_exists
    /\ Return("no_ffmpeg")
    /\ UNCHANGED <<fsVars, rerun, videos, task, histVars, calls>>

\* if not VIDEO_DIR.exists(): return
MainNoVideoDir ==
    /\ mainPc = "main"
    /\ ffmpeg_exists
    /\ ~videoDirExists
    /\ Return("no_video_dir")
    /\ UNCHANGED <<fsVars, rerun, videos, task, histVars, calls>>

\* OUTPUT_DIR.mkdir(exist_ok=True)
MainMkdir ==
    /\ mainPc = "main"
    /\ ffmpeg_exists
    /\ videoDirExists
    /\ outDirExists' = TRUE
    /\ mainPc' = "discover"
    /\ UNCHANGED <<ffmpegInstalled, videoDirExists, videoFiles, frameDirs, pdfFiles,
                   merged, exit, rerun, videos, task, histVars, calls>>

\* videos = sorted(...); if not videos: return
MainNoVideos ==
    /\ mainPc = "discover"
    /\ GlobVideos(videoFiles) = {}
    /\ Return("no_videos")
    /\ UNCHANGED <<fsVars, rerun, videos, task, histVars, calls>>

\* videos = sorted(...); ex.map(process_video, videos) queues one task per video
MainDispatch ==
    /\ mainPc = "discover"
    /\ GlobVideos(videoFiles) # {}
    /\ \E sorted \in SortedVideos(GlobVideos(videoFiles)) :
        /\ videos' = sorted
        /\ task' = [i \in DOMAIN sorted |-> Queued]
    /\ mainPc' = "pool"
    /\ UNCHANGED <<fsVars, exit, rerun, histVars, calls>>

(***************************************************************************)
(* process_video(video_path), one task of the pool per video               *)
(***************************************************************************)
Tasks == DOMAIN task

Running(i) == task[i].pc \notin {"queued", "done"}

\* a mutant of OnException: the handler reports success
OnExceptionReturnsTrue(t, stage) ==
    [t EXCEPT !.pc = "done", !.ret = "True", !.raised = stage]

\* a mutant of OnException: the exception ends the worker and the task never
\* returns
OnExceptionLost(t, stage) ==
    [t EXCEPT !.pc = "crashed", !.raised = stage]

\* except Exception as e: ...; return False
OnException(t, stage) ==
    [t EXCEPT !.pc = "done", !.ret = "False", !.raised = stage]

\* a worker of the pool takes the next queued task, in the order of videos,
\* and process_video calls extract_frames: mkdir, then the check for
\* existing frames
ExtractFramesCheck(i) ==
    /\ mainPc = "pool"
    /\ task[i].pc = "queued"
    /\ \A j \in Tasks : j < i => task[j].pc # "queued"
    /\ Cardinality({j \in Tasks : Running(j)}) < MaxWorkers
    /\ frameDirs' = Mkdir(frameDirs, ImgDir(videos[i]))
    /\ task' = [task EXCEPT ![i].pc =
                    IF HasFrames(frameDirs', ImgDir(videos[i]))
                    THEN "images_to_pdf" ELSE "ffmpeg"]
    /\ UNCHANGED <<ffmpegInstalled, videoDirExists, videoFiles, outDirExists,
                   pdfFiles, merged, mainPc, exit, rerun, videos, histVars, calls>>

\* extract_frames: subprocess.run returns, whatever ffmpeg wrote
FfmpegReturns(i) ==
    /\ task[i].pc = "ffmpeg"
    /\ \E k \in 0..MaxFrames : frameDirs' = Ffmpeg(frameDirs, ImgDir(videos[i]), k)
    /\ task' = [task EXCEPT ![i].pc = "images_to_pdf"]
    /\ UNCHANGED <<ffmpegInstalled, videoDirExists, videoFiles, outDirExists,
                   pdfFiles, merged, mainPc, exit, rerun, videos, histVars, calls>>

\* extract_frames: subprocess.run raises (the process cannot be started)
FfmpegRaises(i) ==
    /\ task[i].pc = "ffmpeg"
    /\ task' = [task EXCEPT ![i] = OnException(@, "extract_frames")]
    /\ UNCHANGED <<fsVars, mainPc, exit, rerun, videos, histVars, calls>>

\* images_to_pdf: the check for an existing PDF, then the glob of the images
ImagesToPdfCheck(i) ==
    /\ task[i].pc = "images_to_pdf"
    /\ task' = [task EXCEPT ![i] =
            IF PdfExists(pdfFiles, PdfPath(videos[i]))
            THEN [@ EXCEPT !.pc = "delete_frames", !.asmRet = "True"]
            ELSE IF GlobJpg(frameDirs, ImgDir(videos[i])) = {}
            THEN [@ EXCEPT !.pc = "delete_frames", !.asmRet = "False"]
            ELSE [@ EXCEPT !.pc = "save",
                           !.images = SortedFiles(GlobJpg(frameDirs, ImgDir(videos[i])))]]
    /\ UNCHANGED <<fsVars, mainPc, exit, rerun, videos, histVars, calls>>

\* images_to_pdf: every image is opened and the PDF is written
ImagesToPdfSave(i) ==
    /\ task[i].pc = "save"
    /\ \A k \in DOMAIN task[i].images :
            task[i].images[k] \in GlobJpg(frameDirs, ImgDir(videos[i]))
    /\ pdfFiles' = SavePdf(pdfFiles, PdfPath(videos[i]))
    /\ pdfWrites' = [pdfWrites EXCEPT ![PdfPath(videos[i])] = @ + 1]
    /\ task' = [task EXCEPT ![i].pc = "delete_frames", ![i].asmRet = "True"]
    /\ UNCHANGED <<ffmpegInstalled, videoDirExists, videoFiles, outDirExists,
                   frameDirs, merged, mainPc, exit, rerun, videos, mergeWrites, calls>>

\* images_to_pdf: Image.open raises (an image is unreadable or gone)
ImagesToPdfRaises(i) ==
    /\ task[i].pc = "save"
    /\ task' = [task EXCEPT ![i] = OnException(@, "images_to_pdf")]
    /\ UNCHANGED <<fsVars, mainPc, exit, rerun, videos, histVars, calls>>

\* delete_frames returns; process_video returns True
DeleteFrames(i) ==
    /\ task[i].pc = "delete_frames"
    /\ frameDirs' = delete_frames(frameDirs, ImgDir(videos[i]))
    /\ task' = [task EXCEPT ![i].pc = "done", ![i].ret = "True"]
    /\ UNCHANGED <<ffmpegInstalled, videoDirExists, videoFiles, outDirExists,
                   pdfFiles, merged, mainPc, exit, rerun, videos, histVars, calls>>

\* delete_frames: the first f.unlink() raises (the image cannot be deleted)
DeleteFramesRaises(i) ==
    /\ task[i].pc = "delete_frames"
    /\ GlobJpg(frameDirs, ImgDir(videos[i])) # {}
    /\ task' = [task EXCEPT ![i] = OnException(@, "delete_frames")]
    /\ UNCHANGED <<fsVars, mainPc, exit, rerun, videos, histVars, calls>>

(***************************************************************************)
(* main(), after the pool: merge_all_pdfs()                                *)
(***************************************************************************)
\* a mutant of PoolDrained: main goes on once the first task has returned
PoolDrainedByFirst == \E i \in Tasks : task[i].pc = "done"

\* leaving "with ThreadPoolExecutor(...)": every task has returned
PoolDrained == \A i \in Tasks : task[i].pc = "done"

\* a mutant of MergedExists: the check for an existing merged PDF is gone
MergedExistsNever(m) == FALSE

\* a mutant of MergedExists: the merge is skipped only while the merged PDF
\* holds every per-video PDF of pdf/
MergedExistsAndCurrent(m) ==
    m.exists /\ {m.blocks[n] : n \in DOMAIN m.blocks} = pdfFiles

\* merged.exists()
MergedExists(m) == m.exists

\* the pool is joined; main calls merge_all_pdfs()
MainJoin ==
    /\ mainPc = "pool"
    /\ PoolDrained
    /\ mainPc' = "merge_all_pdfs"
    /\ UNCHANGED <<fsVars, exit, rerun, videos, task, histVars, calls>>

\* merge_all_pdfs: the merged PDF exists, return
MergeSkip ==
    /\ mainPc = "merge_all_pdfs"
    /\ MergedExists(merged)
    /\ Return("done")
    /\ UNCHANGED <<fsVars, rerun, videos, task, histVars, calls>>

\* merge_all_pdfs: every *.pdf of pdf/ is appended in sorted order and the
\* merged PDF is written
MergeWrite ==
    /\ mainPc = "merge_all_pdfs"
    /\ ~MergedExists(merged)
    /\ \E pdfs \in SortedPdfs(GlobPdf(pdfFiles, merged)) :
            merged' = [exists |-> TRUE, blocks |-> pdfs]
    /\ mergeWrites' = mergeWrites + 1
    /\ Return("done")
    /\ UNCHANGED <<ffmpegInstalled, videoDirExists, videoFiles, outDirExists,
                   frameDirs, pdfFiles, rerun, videos, task, pdfWrites, calls>>

\* the program is started again over the same directories, any number of times
NextRun ==
    /\ mainPc = "returned"
    /\ rerun' = TRUE
    /\ mainPc' = "main"
    /\ exit' = "none"
    /\ videos' = <<>>
    /\ task' = <<>>
    /\ UNCHANGED <<fsVars, histVars, calls>>

Next ==
    \/ MainNoFfmpeg
    \/ MainNoVideoDir
    \/ MainMkdir
    \/ MainNoVideos
    \/ MainDispatch
    \/ \E i \in Tasks : ExtractFramesCheck(i)
    \/ \E i \in Tasks : FfmpegReturns(i)
    \/ \E i \in Tasks : FfmpegRaises(i)
    \/ \E i \in Tasks : ImagesToPdfCheck(i)
    \/ \E i \in Tasks : ImagesToPdfSave(i)
    \/ \E i \in Tasks : ImagesToPdfRaises(i)
    \/ \E i \in Tasks : DeleteFrames(i)
    \/ \E i \in Tasks : DeleteFramesRaises(i)
    \/ MainJoin
    \/ MergeSkip
    \/ MergeWrite
    \/ NextRun

Spec == Init /\ [][Next]_vars

\* a step of the pool: of one of its workers, or of main leaving the
\* with-block
PoolStep == mainPc = "pool" /\ Next

\* the threads of the pool are scheduled and every call of ffmpeg returns: a
\* pool that can take a step takes one
SpecFair == Spec /\ WF_vars(PoolStep)

(***************************************************************************)
(* The stage harness: one caller invokes the three stages on one frame     *)
(* directory and one PDF path, in any order, from any content of the       *)
(* directory.                                                              *)
(***************************************************************************)
\* the video of the harness: 2.mp4
StageVideo == <<"2">> \o Mp4

\* the files its frame directory may hold at first
StageFiles == {FrameNames[i] : i \in 1..MaxFrames} \cup {"cover.jpg", "notes.txt"}

InitStages ==
    /\ ffmpegInstalled = TRUE
    /\ videoDirExists = TRUE
    /\ videoFiles = {StageVideo}
    /\ outDirExists = TRUE
    /\ frameDirs \in {<<>>} \cup {(ImgDir(StageVideo) :> S) : S \in SUBSET StageFiles}
    /\ pdfFiles \in {{}, {PdfPath(StageVideo)}}
    /\ merged = NoMerged
    /\ InitMain
    /\ InitHist
    /\ calls = <<>>

\* the record of one stage call
Call(op, ret, did, dirs, pdfs) ==
    [op |-> op, ret |-> ret, did |-> did,
     before |-> [dirs |-> frameDirs, pdfs |-> pdfFiles],
     after |-> [dirs |-> dirs, pdfs |-> pdfs]]

\* extract_frames(video, img_dir)
CallExtractFrames ==
    /\ Len(calls) < MaxCalls
    /\ \E started \in BOOLEAN, k \in 0..MaxFrames :
        LET r == extract_frames(frameDirs, ImgDir(StageVideo), started, k) IN
        /\ frameDirs' = r.dirs
        /\ calls' = Append(calls, Call("extract_frames", r.ret, r.tool, r.dirs, pdfFiles))
    /\ UNCHANGED <<ffmpegInstalled, videoDirExists, videoFiles, outDirExists,
                   pdfFiles, merged, mainVars, histVars>>

\* images_to_pdf(img_dir, pdf_path)
CallImagesToPdf ==
    /\ Len(calls) < MaxCalls
    /\ \E readable \in BOOLEAN :
        LET r == images_to_pdf(frameDirs, pdfFiles, ImgDir(StageVideo),
                               PdfPath(StageVideo), readable) IN
        /\ pdfFiles' = r.pdfs
        /\ calls' = Append(calls, Call("images_to_pdf", r.ret, r.wrote, frameDirs, r.pdfs))
    /\ UNCHANGED <<ffmpegInstalled, videoDirExists, videoFiles, outDirExists,
                   frameDirs, merged, mainVars, histVars>>

\* delete_frames(img_dir) returns
CallDeleteFrames ==
    /\ Len(calls) < MaxCalls
    /\ frameDirs' = delete_frames(frameDirs, ImgDir(StageVideo))
    /\ calls' = Append(calls, Call("delete_frames", "None", frameDirs' # frameDirs,
                                   frameDirs', pdfFiles))
    /\ UNCHANGED <<ffmpegInstalled, videoDirExists, videoFiles, outDirExists,
                   pdfFiles, merged, mainVars, histVars>>

\* delete_frames(img_dir): the first f.unlink() raises
CallDeleteFramesRaises ==
    /\ Len(calls) < MaxCalls
    /\ GlobJpg(frameDirs, ImgDir(StageVideo)) # {}
    /\ calls' = Append(calls, Call("delete_frames", "raise", FALSE, frameDirs, pdfFiles))
    /\ UNCHANGED <<fsVars, mainVars, histVars>>

NextStages ==
    \/ CallExtractFrames
    \/ CallImagesToPdf
    \/ CallDeleteFrames
    \/ CallDeleteFramesRaises

SpecStages == InitStages /\ [][NextStages]_vars

(***************************************************************************)
(* The discovery and sort of main() over file names whose leading numbers  *)
(* reach the value that extract_number returns for a name without one.     *)
(***************************************************************************)
\* the files video/ may hold
NameUniverse ==
    { <<"2">> \o Mp4, <<"0", "0", "7">> \o Mkv,
      <<"9", "9", "9", "9", "9", "9", "9", "9", "9">> \o Webm,
      <<"1", "0", "0", "0", "0", "0", "0", "0", "0", "0">> \o Mp4,
      <<"a">> \o Mp4, <<"b", "7">> \o Mkv }

\* main() after OUTPUT_DIR.mkdir, about to list video/
InitNames ==
    /\ ffmpegInstalled = TRUE
    /\ videoDirExists = TRUE
    /\ videoFiles \in SUBSET NameUniverse
    /\ outDirExists = TRUE
    /\ frameDirs = <<>>
    /\ pdfFiles = {}
    /\ merged = NoMerged
    /\ mainPc = "discover"
    /\ exit = "none"
    /\ rerun = FALSE
    /\ videos = <<>>
    /\ task = <<>>
    /\ InitHist
    /\ calls = <<>>

NextNames ==
    \/ MainNoVideos
    \/ MainDispatch

SpecNames == InitNames /\ [][NextNames]_vars

(***************************************************************************)
(* Claims                                                                  *)
(***************************************************************************)
\* the discovered videos
Discovered == GlobVideos(videoFiles)

\* every discovered video has a leading number, and no two have the same
DistinctLeadingNumbers ==
    \A v, w \in Discovered :
        /\ LeadingDigits(v) > 0
        /\ v # w => extract_number(v) # extract_number(w)

\* C1: when the discovered videos carry distinct leading numbers, the merged
\* PDF holds per-video PDFs only, each the PDF of one discovered video, and
\* they are appended in strictly ascending order of the leading numbers of
\* their videos, whatever the order of enumeration and of completion.
C1_MergedInNumericOrder ==
    DistinctLeadingNumbers =>
        /\ \A n \in DOMAIN merged.blocks :
                \E v \in Discovered : PdfPath(v) = merged.blocks[n]
        /\ \A n, m \in DOMAIN merged.blocks :
                n < m =>
                    \A v, w \in Discovered :
                        (PdfPath(v) = merged.blocks[n] /\ PdfPath(w) = merged.blocks[m])
                            => extract_number(v) < extract_number(w)

\* C1 witness: two videos with distinct leading numbers, both in the merged PDF
C1_Witness ==
    /\ DistinctLeadingNumbers
    /\ Cardinality(Discovered) = 2
    /\ Len(merged.blocks) = 2

\* C2 (as claimed): no two workers are ever at work on the same frame
\* directory or the same per-video PDF path.
C2_WorkersDisjoint ==
    \A i, j \in Tasks :
        (i # j /\ Running(i) /\ Running(j)) =>
            /\ ImgDir(videos[i]) # ImgDir(videos[j])
            /\ PdfPath(videos[i]) # PdfPath(videos[j])

\* C3: a pipeline in which a stage raised has returned False, and when main
\* is past the pool every pipeline, of the failed video and of the others,
\* has been run to its return.
C3_FailureIsolated ==
    /\ \A i \in Tasks :
            task[i].raised # "none" => (task[i].pc = "done" /\ task[i].ret = "False")
    /\ (mainPc = "merge_all_pdfs" \/ exit = "done") =>
            \A i \in Tasks : task[i].pc = "done" /\ task[i].ret \in {"True", "False"}

\* C3 witness: the run is over, the assembler raised for one video and the
\* pipeline of another returned True
C3_Witness ==
    /\ exit = "done"
    /\ \E i, j \in Tasks :
        /\ task[i].raised = "images_to_pdf"
        /\ task[j].ret = "True"

\* C4 (as claimed): a pipeline whose assembler found an empty frame set and
\* no PDF returns False, and the video has no PDF.
C4_EmptyFrameSetFails ==
    \A i \in Tasks :
        (task[i].pc = "done" /\ task[i].asmRet = "False") =>
            /\ task[i].ret = "False"
            /\ PdfPath(videos[i]) \notin pdfFiles

\* C5: while main is in merge_all_pdfs, every task of the pool has returned.
C5_MergeAfterPool ==
    mainPc = "merge_all_pdfs" => \A i \in Tasks : task[i].pc = "done"

\* C5 witness: main is in merge_all_pdfs after a pool of two tasks
C5_Witness == mainPc = "merge_all_pdfs" /\ Cardinality(Tasks) = 2

\* C6 (as claimed): the merged PDF is written at most once, and only when
\* every discovered video has its PDF.
C6_MergedOnceAllPdfs ==
    [][/\ mergeWrites' <= 1
       /\ mergeWrites' > mergeWrites =>
            \A v \in Discovered : PdfPath(v) \in pdfFiles]_vars

\* C6 (amended): the merged PDF is written at most once over all runs, and
\* only when every pipeline has returned and every video whose assembler
\* returned success has its PDF.
C6_MergedOnceAfterPool ==
    [][/\ mergeWrites' <= 1
       /\ mergeWrites' > mergeWrites =>
            /\ \A i \in Tasks : task[i].pc = "done"
            /\ \A i \in Tasks :
                    task[i].asmRet = "True" => PdfPath(videos[i]) \in pdfFiles]_vars

\* C6 witness: a later run has gone through merge_all_pdfs, the merged PDF
\* exists and a discovered video has no PDF
C6_Witness ==
    /\ rerun
    /\ exit = "done"
    /\ mergeWrites = 1
    /\ \E v \in Discovered : PdfPath(v) \notin pdfFiles

\* the frame directory of the harness holds a frame_*.jpg file
FrameLeft(dirs) ==
    /\ ImgDir(StageVideo) \in DOMAIN dirs
    /\ \E i \in 1..Len(FrameNames) : FrameNames[i] \in dirs[ImgDir(StageVideo)]

\* two consecutive calls of extract_frames
TwiceInARow(n) ==
    /\ n + 1 \in DOMAIN calls
    /\ calls[n].op = "extract_frames"
    /\ calls[n + 1].op = "extract_frames"

\* C7 (as claimed): of two consecutive calls of extract_frames, at most one
\* invokes ffmpeg, and the second changes nothing and returns True.
C7_SecondCallNoOp ==
    \A n \in DOMAIN calls :
        TwiceInARow(n) =>
            /\ ~(calls[n].did /\ calls[n + 1].did)
            /\ calls[n + 1].after = calls[n + 1].before
            /\ calls[n + 1].ret = "True"

\* C7 (amended): when the first of two consecutive calls of extract_frames
\* leaves a frame in the directory, at most one of them invokes ffmpeg and
\* the second changes nothing and returns True; when it leaves none, the
\* second invokes ffmpeg again.
C7_SecondCallNoOpIfFrames ==
    \A n \in DOMAIN calls :
        TwiceInARow(n) =>
            IF FrameLeft(calls[n].after.dirs)
            THEN /\ ~(calls[n].did /\ calls[n + 1].did)
                 /\ calls[n + 1].after = calls[n + 1].before
                 /\ calls[n + 1].ret = "True"
            ELSE calls[n + 1].did

\* C7 witness: the first call invoked ffmpeg, which wrote a frame, and the
\* second call followed
C7_Witness ==
    /\ TwiceInARow(1)
    /\ calls[1].did
    /\ FrameLeft(calls[1].after.dirs)

\* C8 (as claimed): no per-video PDF is written more than once.
C8_PdfWrittenOnce == \A p \in DOMAIN pdfWrites : pdfWrites[p] <= 1

\* a call of images_to_pdf on a directory without images
AssembledNothing(n) ==
    /\ n \in DOMAIN calls
    /\ calls[n].op = "images_to_pdf"
    /\ GlobJpg(calls[n].before.dirs, ImgDir(StageVideo)) = {}

\* C9 (as claimed): images_to_pdf on a directory without images returns
\* False and creates no file.
C9_NoImagesFails ==
    \A n \in DOMAIN calls :
        AssembledNothing(n) =>
            /\ calls[n].ret = "False"
            /\ calls[n].after.pdfs = calls[n].before.pdfs

\* C9 (amended): images_to_pdf on a directory without images creates no
\* file; it returns False when the target PDF does not exist yet and True
\* when it does.
C9_NoImagesFailsUnlessPdf ==
    \A n \in DOMAIN calls :
        AssembledNothing(n) =>
            /\ calls[n].after.pdfs = calls[n].before.pdfs
            /\ calls[n].ret =
                    (IF PdfPath(StageVideo) \in calls[n].before.pdfs THEN "True" ELSE "False")

\* C9 witness: images_to_pdf was called on a directory without images and
\* without a PDF
C9_Witness ==
    /\ AssembledNothing(1)
    /\ calls[1].before.pdfs = {}
    /\ calls[1].ret = "False"

\* C10 (as claimed): in a run that finds video/ but no video in it, no step
\* of main changes the filesystem.
C10_NoVideosNoSideEffects ==
    [][(/\ mainPc \in {"main", "discover"}
        /\ ffmpegInstalled
        /\ videoDirExists
        /\ Discovered = {}) => Fs' = Fs]_vars

\* C11: when ffmpeg or video/ is missing, no step ever changes the
\* filesystem (pdf/ is not created), no task is dispatched, main is only at
\* its start or returned, and the merged PDF is never written.
C11_MissingToolOrInputNoWork ==
    [][(~ffmpegInstalled \/ ~videoDirExists) =>
            /\ Fs' = Fs
            /\ task' = <<>>
            /\ mainPc' \in {"main", "returned"}
            /\ exit' \in {"none", "no_ffmpeg", "no_video_dir"}
            /\ mergeWrites' = 0]_vars

\* C11 witness: main has returned for the missing ffmpeg although video/
\* exists with a video, and pdf/ does not exist
C11_Witness ==
    /\ exit = "no_ffmpeg"
    /\ Discovered # {}
    /\ ~outDirExists

\* a run has completed in which every pipeline returned True and the
\* assembler of every video found at least one frame image
CompleteRunWithFrames ==
    /\ exit = "done"
    /\ DistinctLeadingNumbers
    /\ \A i \in Tasks : task[i].ret = "True" /\ task[i].images # <<>>

C13_CleanupNeverRaises ==
    \A n \in DOMAIN calls :
        calls[n].op = "delete_frames" =>
            /\ calls[n].ret = "None"
            /\ GlobJpg(calls[n].after.dirs, ImgDir(StageVideo)) = {}

\* C14 (as claimed): extract_number returns the integer of the leading digit
\* run of a name, else the sentinel, and in the sorted list of videos every
\* name without a leading number comes after every name with one.
C14_SentinelSortsLast ==
    /\ \A v \in videoFiles :
        IF v[1] \in Digit
        THEN zfill(Str(extract_number(v)), LeadingDigits(v))
                = SubSeq(v, 1, LeadingDigits(v))
        ELSE extract_number(v) = Sentinel
    /\ \A i, j \in DOMAIN videos :
        (LeadingDigits(videos[i]) = 0 /\ LeadingDigits(videos[j]) > 0) => j < i

\* C15: a call of merge_all_pdfs that finds the merged PDF changes no file,
\* the merged PDF included, and writes nothing, whatever per-video PDFs exist.
C15_MergeSkipChangesNothing ==
    [][(mainPc = "merge_all_pdfs" /\ merged.exists) =>
            /\ Fs' = Fs
            /\ mergeWrites' = mergeWrites
            /\ pdfWrites' = pdfWrites
            /\ mainPc' = "returned"]_vars

\* C15 witness: a later run has returned from merge_all_pdfs with the merged
\* PDF of the first run in place, and a per-video PDF written since is not in it
C15_Witness ==
    /\ rerun
    /\ exit = "done"
    /\ mergeWrites = 1
    /\ \E p \in pdfFiles : \A n \in DOMAIN merged.blocks : merged.blocks[n] # p

\* C16: whatever stages raise, main does not stay in the pool forever, and
\* it leaves the pool only when every task has returned, and only to call
\* merge_all_pdfs, which is entered only from the pool and left only by
\* returning: every dispatched task returns and the merge is then called once.
C16_PoolDrainsThenMergeOnce ==
    /\ []<>(mainPc # "pool")
    /\ [][/\ (mainPc = "pool" /\ mainPc' # "pool") =>
                (mainPc' = "merge_all_pdfs" /\ \A i \in Tasks : task[i].pc = "done")
          /\ mainPc' = "merge_all_pdfs" => mainPc = "pool"
          /\ mainPc = "merge_all_pdfs" => mainPc' = "returned"
          /\ mainPc' = "pool" => mainPc \in {"discover", "pool"}]_vars

\* C16 witness: main is in merge_all_pdfs after a pool of two tasks that both
\* returned False, one of them by an exception
C16_Witness ==
    /\ mainPc = "merge_all_pdfs"
    /\ Cardinality(Tasks) = 2
    /\ \A i \in Tasks : task[i].ret = "False"
    /\ \E i \in Tasks : task[i].raised # "none"

\* the PDFs appended to the merged PDF
Blocks(m) == {m.blocks[n] : n \in DOMAIN m.blocks}

\* the step writes the merged PDF, and it then holds exactly the per-video
\* PDFs of pdf/, each once, and not the merged PDF
MergeWritesThePdfs ==
    /\ Blocks(merged') = pdfFiles
    /\ Len(merged'.blocks) = Cardinality(pdfFiles)
    /\ MergedName \notin Blocks(merged')

\* C17 (as claimed): when merge_all_pdfs writes, the merged PDF holds exactly
\* the per-video PDFs that exist, each once, and not itself, and the PDF of no
\* video whose pipeline returned False; stated for distinct leading numbers.
C17_MergedExactlyThePdfs ==
    [][(mergeWrites' > mergeWrites /\ DistinctLeadingNumbers) =>
            /\ MergeWritesThePdfs
            /\ \A i \in Tasks :
                task[i].ret = "False" => PdfPath(videos[i]) \notin Blocks(merged')]_vars

\* the pool of a later run works on videos with distinct leading numbers
\* whose PDFs all exist and are all in the merged PDF of an earlier run
RerunAfterSuccess ==
    /\ rerun
    /\ mainPc = "pool"
    /\ DistinctLeadingNumbers
    /\ merged.exists
    /\ \A v \in Discovered : PdfPath(v) \in pdfFiles \cap Blocks(merged)

\* C18 (as claimed): in a run after a fully successful run no task comes to
\* call ffmpeg, no per-video PDF is written and the merged PDF is not written.
C18_RerunSkipsAllWork ==
    [][RerunAfterSuccess =>
            /\ \A i \in Tasks : task'[i].pc # "ffmpeg"
            /\ pdfWrites' = pdfWrites
            /\ mergeWrites' = mergeWrites]_vars

\* no two discovered videos have the same identifier
DistinctIdentifiers ==
    \A v, w \in Discovered : v # w => ImgDir(v) # ImgDir(w)

\* C19: for videos with distinct identifiers, a step of the pool removes a
\* *.jpg file from the frame directory of a video only if the PDF of that video
\* exists, and the step in which images_to_pdf raises changes no directory.
C19_FramesDeletedOnlyWithPdf ==
    [][mainPc = "pool" =>
            /\ (frameDirs' # frameDirs /\ DistinctIdentifiers) =>
                \A i \in Tasks :
                    ~(GlobJpg(frameDirs, ImgDir(videos[i]))
                        \subseteq GlobJpg(frameDirs', ImgDir(videos[i])))
                    => PdfPath(videos[i]) \in pdfFiles
            /\ \A i \in Tasks :
                (task[i].raised = "none" /\ task'[i].raised = "images_to_pdf")
                    => frameDirs' = frameDirs]_vars

\* C19 witness: of two videos with distinct identifiers, one has its PDF and
\* its frames deleted, the other's images_to_pdf raised and its frames remain
C19_Witness ==
    /\ DistinctIdentifiers
    /\ \E i, j \in Tasks :
        /\ task[i].ret = "True"
        /\ task[i].images # <<>>
        /\ PdfPath(videos[i]) \in pdfFiles
        /\ GlobJpg(frameDirs, ImgDir(videos[i])) = {}
        /\ task[j].raised = "images_to_pdf"
        /\ PdfPath(videos[j]) \notin pdfFiles
        /\ GlobJpg(frameDirs, ImgDir(videos[j])) # {}

====
